---- MODULE Spec2Model ----
(***************************************************************************)
(* smart-date: recognition of relative date phrases ("today", "tom",      *)
(* "fri") inside free text, and their resolution against a reference      *)
(* date.  Strings are sequences of one-character strings; byte offsets    *)
(* are positions in those sequences (all inputs are ASCII).               *)
(***************************************************************************)
EXTENDS Integers, Sequences, FiniteSets, TLC

VARIABLES
    text,     \* the caller's input string (original letter case)
    input,    \* parse_flex_date: the cursor, a suffix of the lowercased text
    offset,   \* parse_flex_date: byte offset of the cursor
    pc,       \* parse_flex_date: "start", "loop", "done" ("idle": not called)
    iters,    \* parse_flex_date: completed iterations of the while loop
    result,   \* what find_and_parse_in_str returned
    exact,    \* what parse_from_str returned
    self,     \* into_naive_date: the FlexibleDate being resolved
    today,    \* into_naive_date: the reference date
    date,     \* what into_naive_date returned
    from,     \* days_until: the receiver weekday
    to,       \* days_until: the argument weekday
    dist      \* what days_until returned

vars == <<text, input, offset, pc, iters, result, exact,
          self, today, date, from, to, dist>>

parserVars == <<text, input, offset, pc, iters, result, exact>>
dateVars == <<self, today, date, from, to, dist>>

----------------------------------------------------------------------------
(* Values *)

Monday == "Monday"
Tuesday == "Tuesday"
Wednesday == "Wednesday"
Thursday == "Thursday"
Friday == "Friday"
Saturday == "Saturday"
Sunday == "Sunday"

WeekdaySet == {Monday, Tuesday, Wednesday, Thursday, Friday, Saturday, Sunday}

Today == [kind |-> "Today"]
Tomorrow == [kind |-> "Tomorrow"]
Weekday(d) == [kind |-> "Weekday", day |-> d]

FlexibleDate == {Today, Tomorrow} \cup {Weekday(d) : d \in WeekdaySet}

\* Option<T>
None == [some |-> FALSE]
Some(v) == [some |-> TRUE, val |-> v]

\* Parsed<T>; range is the half-open interval start..end
Parsed(d, s, e) == [data |-> d, range |-> <<s, e>>]

\* nom's IResult<&str, O>
Ok(remainder, out) == [ok |-> TRUE, rem |-> remainder, out |-> out]
Err == [ok |-> FALSE]

\* a call that has not returned yet
Pending == [pending |-> TRUE]

----------------------------------------------------------------------------
(* Characters and strings *)

UpperLetters ==
    <<"A","B","C","D","E","F","G","H","I","J","K","L","M",
      "N","O","P","Q","R","S","T","U","V","W","X","Y","Z">>
LowerLetters ==
    <<"a","b","c","d","e","f","g","h","i","j","k","l","m",
      "n","o","p","q","r","s","t","u","v","w","x","y","z">>

LetterIndex(letters, c) == CHOOSE i \in 1..Len(letters) : letters[i] = c
IsUpper(c) == \E i \in 1..Len(UpperLetters) : UpperLetters[i] = c
IsLower(c) == \E i \in 1..Len(LowerLetters) : LowerLetters[i] = c

\* char::to_lowercase on ASCII
char_to_lowercase(c) ==
    IF IsUpper(c) THEN LowerLetters[LetterIndex(UpperLetters, c)] ELSE c

\* a faulty variant: the input is scanned as it is, not lowercased
to_lowercase_identity(s) == s

\* str::to_lowercase on ASCII: one output byte per input byte
to_lowercase(s) == [i \in 1..Len(s) |-> char_to_lowercase(s[i])]

\* char::is_whitespace on ASCII
is_whitespace(c) == c \in {" ", "\t", "\n", "\r", "\f"}

\* the characters of is_not(" \t") and of space1
SpaceTab == {" ", "\t"}

Drop(s, n) == SubSeq(s, n + 1, Len(s))
Take(s, n) == SubSeq(s, 1, n)

\* length of the longest prefix of s whose characters all satisfy
\* (c \in set) = member
SpanLen(s, set, member) ==
    CHOOSE n \in 0..Len(s) :
        /\ \A i \in 1..n : (s[i] \in set) = member
        /\ n = Len(s) \/ (s[n + 1] \in set) # member

----------------------------------------------------------------------------
(* parser.rs: the nom combinators *)

\* tag(t)
tag(t, s) ==
    IF Len(s) >= Len(t) /\ Take(s, Len(t)) = t
    THEN Ok(Drop(s, Len(t)), t)
    ELSE Err

\* branch::alt over a tuple of tags: the first tag that matches wins
RECURSIVE alt_tags(_, _)
alt_tags(tags, s) ==
    IF tags = <<>> THEN Err
    ELSE LET r == tag(Head(tags), s)
         IN  IF r.ok THEN r ELSE alt_tags(Tail(tags), s)

\* combinator::value(v, parser)
value(v, r) == IF r.ok THEN Ok(r.rem, v) ELSE Err

\* is_not(" \t"): one or more characters, none of them a space or a tab
not_whitespace(s) ==
    LET n == SpanLen(s, SpaceTab, FALSE)
    IN  IF n = 0 THEN Err ELSE Ok(Drop(s, n), Take(s, n))

\* a faulty variant: space0, zero or more spaces and tabs
space0(s) ==
    LET n == SpanLen(s, SpaceTab, TRUE)
    IN  Ok(Drop(s, n), Take(s, n))

\* space1: one or more spaces and tabs
space1(s) ==
    LET n == SpanLen(s, SpaceTab, TRUE)
    IN  IF n = 0 THEN Err ELSE Ok(Drop(s, n), Take(s, n))

TodayTags == << <<"t","o","d","a","y">>, <<"t","o","d">> >>

TomorrowTags ==
    << <<"t","o","m","o","r","r","o","w">>, <<"t","o","m">>,
       <<"t","m","r","w">> >>

\* the seven arms of parse_weekday, in the order of the source
WeekdayArms ==
    << [day |-> Sunday,
        tags |-> << <<"s","u","n","d","a","y">>, <<"s","u","n">> >>],
       [day |-> Monday,
        tags |-> << <<"m","o","n","d","a","y">>, <<"m","o","n">> >>],
       [day |-> Tuesday,
        tags |-> << <<"t","u","e","s","d","a","y">>, <<"t","u","e">> >>],
       [day |-> Wednesday,
        tags |-> << <<"w","e","d","n","e","s","d","a","y">>,
                    <<"w","e","d">> >>],
       [day |-> Thursday,
        tags |-> << <<"t","h","u","r","s","d","a","y">>,
                    <<"t","h","u","r","s">> >>],
       [day |-> Friday,
        tags |-> << <<"f","r","i","d","a","y">>, <<"f","r","i">> >>],
       [day |-> Saturday,
        tags |-> << <<"s","a","t","u","r","d","a","y">>,
                    <<"s","a","t">> >>] >>

\* a faulty variant: the abbreviation is tried before the full word
parse_today_abbreviation_first(s) ==
    value(Today, alt_tags(<<TodayTags[2], TodayTags[1]>>, s))

parse_today(s) == value(Today, alt_tags(TodayTags, s))

parse_tomorrow(s) == value(Tomorrow, alt_tags(TomorrowTags, s))

\* one arm of parse_weekday
parse_weekday_arm(arm, s) == value(Weekday(arm.day), alt_tags(arm.tags, s))

RECURSIVE alt_arms(_, _)
alt_arms(arms, s) ==
    IF arms = <<>> THEN Err
    ELSE LET r == parse_weekday_arm(Head(arms), s)
         IN  IF r.ok THEN r ELSE alt_arms(Tail(arms), s)

parse_weekday(s) == alt_arms(WeekdayArms, s)

parse_flex_date_exact(s) ==
    LET r1 == parse_today(s)
        r2 == parse_tomorrow(s)
    IN  IF r1.ok THEN r1
        ELSE IF r2.ok THEN r2
        ELSE parse_weekday(s)

\* a faulty variant: what follows the literal is not looked at
parse_flex_date_without_suffix(s) == parse_flex_date_exact(s)

parse_flex_date_with_suffix(s) ==
    LET r == parse_flex_date_exact(s)
    IN  IF ~r.ok THEN Err
        ELSE IF r.rem = <<>> \/ is_whitespace(r.rem[1]) THEN r
        ELSE Err

\* tuple((not_whitespace, space1))
eat_token(s) ==
    LET t == not_whitespace(s)
    IN  IF ~t.ok THEN Err
        ELSE LET w == space1(t.rem)
             IN  IF ~w.ok THEN Err
                 ELSE Ok(w.rem, [token |-> t.out, space |-> w.out])

\* the condition of the while loop of parse_flex_date
loop_condition(s) == ~parse_flex_date_with_suffix(s).ok /\ s # <<>>

\* a faulty variant: the range runs to the end of the input
loop_exit_to_end(s, off) ==
    LET r == parse_flex_date_exact(s)
    IN  IF r.ok THEN Some(Parsed(r.out, off, off + Len(s))) ELSE None

\* the expression after the loop of parse_flex_date
loop_exit(s, off) ==
    LET r == parse_flex_date_exact(s)
    IN  IF r.ok
        THEN Some(Parsed(r.out, off, off + Len(s) - Len(r.rem)))
        ELSE None

\* the loop of parse_flex_date from cursor s at offset off
RECURSIVE scan(_, _)
scan(s, off) ==
    IF loop_condition(s)
    THEN LET e == eat_token(s)
         IN  IF ~e.ok THEN None
             ELSE scan(e.rem, off + Len(e.out.token) + Len(e.out.space))
    ELSE loop_exit(s, off)

parse_flex_date(s) == scan(to_lowercase(s), 0)

----------------------------------------------------------------------------
(* lib.rs: the public entry points *)

parse_from_str(s) ==
    LET r == parse_flex_date_exact(s)
    IN  IF r.ok THEN Some(r.out) ELSE None

find_and_parse_in_str(s) == parse_flex_date(s)

\* the ordinal of NaiveDate's doc-test reference date 2023-10-08 (days
\* since 0000-12-31 in the proleptic Gregorian calendar; day 1 is a Monday)
DocToday == 738801

\* how many days after DocToday the modelled range of NaiveDate extends
DateSpan == 13

\* the reference dates of the model, and the last representable date
NaiveDateMax == DocToday + DateSpan
Dates == DocToday..NaiveDateMax

\* a call that returned v, and a call that panicked
Returned(v) == [ret |-> v]
Panicked == [panic |-> TRUE]

ChronoWeekdays == <<"Mon", "Tue", "Wed", "Thu", "Fri", "Sat", "Sun">>

\* NaiveDate::weekday
chrono_weekday(d) == ChronoWeekdays[((d - 1) % 7) + 1]

\* impl From<ChronoWeekday> for Weekday
from_chrono(w) ==
    CASE w = "Mon" -> Monday
      [] w = "Tue" -> Tuesday
      [] w = "Wed" -> Wednesday
      [] w = "Thu" -> Thursday
      [] w = "Fri" -> Friday
      [] w = "Sat" -> Saturday
      [] w = "Sun" -> Sunday

week_index(d) ==
    CASE d = Monday -> 0
      [] d = Tuesday -> 1
      [] d = Wednesday -> 2
      [] d = Thursday -> 3
      [] d = Friday -> 4
      [] d = Saturday -> 5
      [] d = Sunday -> 6

\* u64 subtraction; -1 stands for an underflow (a panic in a debug build, a
\* wrapped value near 2^64 in a release build)
u64_sub(x, y) == IF x >= y THEN x - y ELSE -1

\* a faulty variant: the index of self is subtracted without the wrap-around branch
days_until_no_wrap(s, day) == u64_sub(week_index(day), week_index(s))

days_until(s, day) ==
    LET day_index == week_index(day)
        self_index == week_index(s)
    IN  IF day_index >= self_index
        THEN u64_sub(day_index, self_index)
        ELSE u64_sub(7 + day_index, self_index)

\* NaiveDate + Days::new(n): panics when the sum is not representable
add_days(d, n) ==
    IF n < 0 \/ d + n > NaiveDateMax THEN Panicked ELSE Returned(d + n)

\* a faulty variant: the distance is measured from the target day to today's weekday
into_naive_date_reversed(s, t) ==
    CASE s.kind = "Today" -> Returned(t)
      [] s.kind = "Tomorrow" -> add_days(t, 1)
      [] s.kind = "Weekday" ->
            LET weekday == from_chrono(chrono_weekday(t))
            IN  add_days(t, days_until(s.day, weekday))

into_naive_date(s, t) ==
    CASE s.kind = "Today" -> Returned(t)
      [] s.kind = "Tomorrow" -> add_days(t, 1)
      [] s.kind = "Weekday" ->
            LET weekday == from_chrono(chrono_weekday(t))
            IN  add_days(t, days_until(weekday, s.day))

----------------------------------------------------------------------------
(* Inputs *)

\* inputs are built from at most MaxPieces pieces
MaxPieces == 4

Pieces ==
    { <<"t","o","d">>, <<"a","y">>, <<"T","o","m">>, <<"f","r","i">>,
      <<"!">>, <<" ">>, <<"\t">>, <<"\n">> }

RECURSIVE Flatten(_)
Flatten(ss) == IF ss = <<>> THEN <<>> ELSE Head(ss) \o Flatten(Tail(ss))

Composed ==
    UNION { { Flatten(ps) : ps \in [1..n -> Pieces] } : n \in 0..MaxPieces }

\* every tag of the grammar
RECURSIVE Range(_)
Range(ss) == IF ss = <<>> THEN {} ELSE {Head(ss)} \cup Range(Tail(ss))

AllTags ==
    Range(TodayTags) \cup Range(TomorrowTags)
    \cup UNION { Range(WeekdayArms[i].tags) : i \in 1..Len(WeekdayArms) }

char_to_uppercase(c) ==
    IF IsLower(c) THEN UpperLetters[LetterIndex(LowerLetters, c)] ELSE c
to_uppercase(s) == [i \in 1..Len(s) |-> char_to_uppercase(s[i])]

\* the inputs of the tests and doc-tests of the source
TestInputs ==
    { <<"t","o","m","o","r","r","o","w"," ","a","f","t","e","r">>,
      <<"b","e","f","o","r","e"," ","t","o","m","o","r","r","o","w">>,
      <<"b","e","f","o","r","e"," ","t","o","m","o","r","r","o","w"," ",
        "a","f","t","e","r">>,
      <<"d","o"," ","a"," ","b","a","r","r","e","l"," ","r","o","l","l"," ",
        "t","o","d">>,
      <<"g","o"," ","h","o","m","e"," ","f","r","i"," ","o","k","a","y">>,
      <<"T","o","d","a","y">>,
      <<"t","o","M","o","r","R","o","W">>,
      <<"I","'","m"," ","a"," ","l","i","t","t","l","e"," ",
        "t","e","a","p","o","t">>,
      <<"t","o","d","d"," ","t","o","m","m"," ","t","t","o","d","a","y"," ",
        "d","t","o","m","o","r","r","o","w"," ","t","o","d","a","y","y","y">>,
      <<"g","o"," ","t","o"," ","t","h","e"," ","s","t","o","r","e"," ",
        "t","o","d","a","y">>,
      <<"d","o"," ","a"," ","b","a","r","r","e","l"," ","t","o","m"," ",
        "o","k","a","y","?">> }

Inputs ==
    Composed \cup TestInputs \cup AllTags \cup { to_uppercase(t) : t \in AllTags }

----------------------------------------------------------------------------
(* The parser: find_and_parse_in_str step by step, and parse_from_str *)

ParserInit ==
    /\ text \in Inputs
    /\ input = <<>>
    /\ offset = 0
    /\ pc = "start"
    /\ iters = 0
    /\ result = Pending
    /\ exact = Pending

DateIdle ==
    /\ self = Today
    /\ today = DocToday
    /\ date = Returned(DocToday)
    /\ from = Monday
    /\ to = Monday
    /\ dist = Returned(0)

Init == ParserInit /\ DateIdle

\* let mut input = &input.to_lowercase()[..]; let mut offset = 0;
Lowercase ==
    /\ pc = "start"
    /\ input' = to_lowercase(text)
    /\ offset' = 0
    /\ pc' = "loop"
    /\ UNCHANGED <<text, iters, result, exact, dateVars>>

\* one iteration of the while loop
EatToken ==
    /\ pc = "loop"
    /\ loop_condition(input)
    /\ LET e == eat_token(input)
       IN  /\ e.ok
           /\ input' = e.rem
           /\ offset' = offset + Len(e.out.token) + Len(e.out.space)
    /\ iters' = iters + 1
    /\ UNCHANGED <<text, pc, result, exact, dateVars>>

\* the loop body returns None through the ? operator
EatFail ==
    /\ pc = "loop"
    /\ loop_condition(input)
    /\ ~eat_token(input).ok
    /\ result' = None
    /\ pc' = "done"
    /\ UNCHANGED <<text, input, offset, iters, exact, dateVars>>

\* the loop condition is false: the function returns the final expression
LoopExit ==
    /\ pc = "loop"
    /\ ~loop_condition(input)
    /\ result' = loop_exit(input, offset)
    /\ pc' = "done"
    /\ UNCHANGED <<text, input, offset, iters, exact, dateVars>>

\* the caller hands the same text to parse_from_str
ParseFromStr ==
    /\ pc = "done"
    /\ exact = Pending
    /\ exact' = parse_from_str(text)
    /\ UNCHANGED <<text, input, offset, pc, iters, result, dateVars>>

Next == Lowercase \/ EatToken \/ EatFail \/ LoopExit \/ ParseFromStr

Spec == Init /\ [][Next]_vars

----------------------------------------------------------------------------
(* The resolver: into_naive_date and days_until *)

ParserIdle ==
    /\ text = <<>>
    /\ input = <<>>
    /\ offset = 0
    /\ pc = "idle"
    /\ iters = 0
    /\ result = None
    /\ exact = None

DateInit ==
    /\ ParserIdle
    /\ self \in FlexibleDate
    /\ today \in Dates
    /\ date = Pending
    /\ from \in WeekdaySet
    /\ to \in WeekdaySet
    /\ dist = Pending

IntoNaiveDate ==
    /\ date = Pending
    /\ date' = into_naive_date(self, today)
    /\ UNCHANGED <<self, today, from, to, dist, parserVars>>

DaysUntil ==
    /\ dist = Pending
    /\ dist' = Returned(days_until(from, to))
    /\ UNCHANGED <<self, today, date, from, to, parserVars>>

DateNext == IntoNaiveDate \/ DaysUntil

DateSpec == DateInit /\ [][DateNext]_vars

----------------------------------------------------------------------------
(* The vocabulary of the specification *)

\* the table of accepted literals, by value
AcceptedLiterals(v) ==
    CASE v = Today -> { <<"t","o","d","a","y">>, <<"t","o","d">> }
      [] v = Tomorrow ->
            { <<"t","o","m","o","r","r","o","w">>, <<"t","o","m">>,
              <<"t","m","r","w">> }
      [] v = Weekday(Sunday) -> { <<"s","u","n","d","a","y">>, <<"s","u","n">> }
      [] v = Weekday(Monday) -> { <<"m","o","n","d","a","y">>, <<"m","o","n">> }
      [] v = Weekday(Tuesday) ->
            { <<"t","u","e","s","d","a","y">>, <<"t","u","e">> }
      [] v = Weekday(Wednesday) ->
            { <<"w","e","d","n","e","s","d","a","y">>, <<"w","e","d">> }
      [] v = Weekday(Thursday) ->
            { <<"t","h","u","r","s","d","a","y">>, <<"t","h","u","r","s">> }
      [] v = Weekday(Friday) -> { <<"f","r","i","d","a","y">>, <<"f","r","i">> }
      [] v = Weekday(Saturday) ->
            { <<"s","a","t","u","r","d","a","y">>, <<"s","a","t">> }

SpecLiterals == UNION { AcceptedLiterals(v) : v \in FlexibleDate }

\* the value of a literal
ValueOf(l) == CHOOSE v \in FlexibleDate : l \in AcceptedLiterals(v)

\* whitespace: space, tab, newline (and the other ASCII white space)
IsWs(c) == c \in {" ", "\t", "\n", "\r", "\f"}

Lower(s) ==
    [i \in 1..Len(s) |->
        IF IsUpper(s[i]) THEN LowerLetters[LetterIndex(UpperLetters, s[i])]
        ELSE s[i]]

\* the positions of the letters of s
LetterPositions(s) == { i \in 1..Len(s) : IsUpper(s[i]) \/ IsLower(s[i]) }

\* s with the case of the letters at the positions U changed
Recase(s, U) ==
    [j \in 1..Len(s) |->
        IF j \notin U THEN s[j]
        ELSE IF IsUpper(s[j]) THEN LowerLetters[LetterIndex(UpperLetters, s[j])]
        ELSE IF IsLower(s[j]) THEN UpperLetters[LetterIndex(LowerLetters, s[j])]
        ELSE s[j]]

\* an input of at most MaxRecase letters is compared with every recasing
MaxRecase == 4

\* s all lowercase, s all uppercase, s with the case of one letter changed,
\* and, when s has at most MaxRecase letters, s with the case of any subset
\* of its letters changed
CaseVariants(s) ==
    {Lower(s), to_uppercase(s)}
    \cup { Recase(s, {i}) : i \in LetterPositions(s) }
    \cup IF Cardinality(LetterPositions(s)) <= MaxRecase
         THEN { Recase(s, U) : U \in SUBSET LetterPositions(s) }
         ELSE {}

SetMin(S) == CHOOSE x \in S : \A y \in S : x <= y
SetMax(S) == CHOOSE x \in S : \A y \in S : y <= x

\* s without its leading and trailing whitespace
Trim(s) ==
    LET keep == { i \in 1..Len(s) : ~IsWs(s[i]) }
    IN  IF keep = {} THEN <<>> ELSE SubSeq(s, SetMin(keep), SetMax(keep))

HasWs(s) == \E i \in 1..Len(s) : IsWs(s[i])

\* the bytes a..b-1 of s (a half-open byte range, counted from 0)
Slice(s, a, b) == SubSeq(s, a + 1, b)

\* a..b is a token of s: a maximal run of non-whitespace characters
IsToken(s, a, b) ==
    /\ 0 <= a /\ a < b /\ b <= Len(s)
    /\ \A i \in (a + 1)..b : ~IsWs(s[i])
    /\ a = 0 \/ IsWs(s[a])
    /\ b = Len(s) \/ IsWs(s[b + 1])

\* the start offsets of the tokens of s that are accepted literals
LiteralTokenStarts(s) ==
    { a \in 0..Len(s) :
        \E b \in (a + 1)..Len(s) :
            IsToken(s, a, b) /\ Lower(Slice(s, a, b)) \in SpecLiterals }

\* the end of the token of s that starts at a
TokenEnd(s, a) == CHOOSE b \in (a + 1)..Len(s) : IsToken(s, a, b)

\* a token of s that begins with an accepted literal and is longer than it,
\* or ends with one
HasNearMiss(s) ==
    \E a \in 0..Len(s) : \E b \in (a + 1)..Len(s) :
        /\ IsToken(s, a, b)
        /\ Lower(Slice(s, a, b)) \notin SpecLiterals
        /\ \E l \in SpecLiterals :
              /\ Len(l) < b - a
              /\ \/ Lower(Slice(s, a, a + Len(l))) = l
                 \/ Lower(Slice(s, b - Len(l), b)) = l

\* s does not begin with whitespace and is separated by spaces and tabs only
SpaceTabSeparated(s) ==
    /\ s # <<>> => ~IsWs(s[1])
    /\ \A i \in 1..Len(s) : IsWs(s[i]) => s[i] \in {" ", "\t"}

\* Monday=0 ... Sunday=6
Ordinal(d) ==
    CASE d = Monday -> 0 [] d = Tuesday -> 1 [] d = Wednesday -> 2
      [] d = Thursday -> 3 [] d = Friday -> 4 [] d = Saturday -> 5
      [] d = Sunday -> 6

----------------------------------------------------------------------------
(* Claims about the parser (specification Spec) *)

\* C1: parse_from_str returns Some(v) exactly when the whole trimmed input is
\* one of the accepted literals of v, and None when any other text surrounds
\* or follows the literal.
C1_ExactWholeString ==
    exact # Pending =>
        \A v \in FlexibleDate :
            (exact = Some(v)) <=> (Trim(text) \in AcceptedLiterals(v))

\* C2: on an input without whitespace, parse_from_str succeeds exactly when
\* find_and_parse_in_str matches with the range 0..len, and then both return
\* the same value.
C2_ExactAgreesWithFind ==
    (pc = "done" /\ exact # Pending /\ ~HasWs(text)) =>
        /\ exact.some <=>
              (result.some /\ result.val.range = <<0, Len(text)>>)
        /\ exact.some => (result.some /\ result.val.data = exact.val)

\* C3: find_and_parse_in_str returns the leftmost token of the input that is
\* an accepted literal (in any letter case; tokens are separated by spaces,
\* tabs and newlines, and the input may begin or end with whitespace), and
\* returns None only when no token is an accepted literal.
C3_FindsLeftmostToken ==
    pc = "done" =>
        LET starts == LiteralTokenStarts(text)
        IN  IF starts = {} THEN result = None
            ELSE LET a == SetMin(starts)
                     b == TokenEnd(text, a)
                 IN  result =
                        Some(Parsed(ValueOf(Lower(Slice(text, a, b))), a, b))

C5_RangeInvariant ==
    (pc = "done" /\ result.some) =>
        LET a == result.val.range[1]
            b == result.val.range[2]
        IN  /\ 0 <= a /\ a < b /\ b <= Len(text)
            /\ a = offset
            /\ a = Len(text) - Len(input)
            /\ Lower(Slice(text, a, b)) \in AcceptedLiterals(result.val.data)
            /\ \E l \in AcceptedLiterals(result.val.data) : b - a = Len(l)
            /\ \A i \in (a + 1)..b : ~IsWs(text[i])

\* C5 witness: "before tomorrow after" gives Tomorrow at 7..15
C5_Witness ==
    /\ pc = "done"
    /\ text = <<"b","e","f","o","r","e"," ","t","o","m","o","r","r","o","w",
                " ","a","f","t","e","r">>
    /\ result = Some(Parsed(Tomorrow, 7, 15))

\* C6: changing the case of letters of the input changes neither whether
\* find_and_parse_in_str matches nor the value nor the range of the match.
C6_CaseInsensitive ==
    pc = "done" =>
        \A v \in CaseVariants(text) : find_and_parse_in_str(v) = result

\* C6 witness: a match on an input that has uppercase letters
C6_Witness ==
    /\ pc = "done"
    /\ result.some
    /\ \E i \in (result.val.range[1] + 1)..result.val.range[2] :
          IsUpper(text[i])

\* a class of the grammar matches the whole of s
ClassMatches(v, s) ==
    LET r == CASE v = Today -> parse_today(s)
               [] v = Tomorrow -> parse_tomorrow(s)
               [] OTHER ->
                    parse_weekday_arm(
                        WeekdayArms[CHOOSE i \in 1..Len(WeekdayArms) :
                                        WeekdayArms[i].day = v.day], s)
    IN  r.ok /\ r.rem = <<>>

\* C7: for each accepted literal L, find_and_parse_in_str(L) matches the
\* whole of L with the value of its table row, and exactly one class of the
\* grammar matches L.
C7_LiteralsMatchWhole ==
    (pc = "done" /\ text \in SpecLiterals) =>
        /\ \A v \in FlexibleDate :
              text \in AcceptedLiterals(v) =>
                  result = Some(Parsed(v, 0, Len(text)))
        /\ Cardinality({ v \in FlexibleDate : ClassMatches(v, text) }) = 1

\* C7 witness: "today" is matched as 0..5 (not 0..3)
C7_Witness ==
    /\ pc = "done"
    /\ text = <<"t","o","d","a","y">>
    /\ result = Some(Parsed(Today, 0, 5))

\* the bytes s[1..k] are a non-empty run without space or tab followed by a
\* non-empty run of spaces and tabs
TokenThenSpace(s, k) ==
    \E i \in 1..(k - 1) :
        /\ \A j \in 1..i : s[j] \notin SpaceTab
        /\ \A j \in (i + 1)..k : s[j] \in SpaceTab

\* what holds of the scanner in every state
C10_ScanInv ==
    pc \in {"loop", "done"} =>
        /\ offset + Len(input) = Len(text)
        /\ input = Drop(to_lowercase(text), offset)
        /\ 2 * iters <= offset
        /\ iters <= Len(text)
        /\ pc = "loop" => ENABLED (EatToken \/ EatFail \/ LoopExit)
        /\ pc = "done" => result \in {None} \cup
                            { Some(Parsed(v, offset, e)) :
                                v \in FlexibleDate, e \in offset..Len(text) }

\* what holds of every iteration of the loop
C10_ScanStep ==
    (pc = "loop" /\ pc' = "loop") =>
        /\ iters' = iters + 1
        /\ offset' > offset
        /\ input' = Drop(input, offset' - offset)
        /\ TokenThenSpace(input, offset' - offset)

----------------------------------------------------------------------------
(* Claims about the resolver (specification DateSpec) *)

\* C8: days_until is the cyclic distance (ordinal(b) - ordinal(a)) mod 7; it
\* lies in 0..6 (no unsigned underflow), is 0 exactly when a = b, and for
\* a # b the distances there and back add up to 7.
C8_DaysUntilCyclic ==
    dist # Pending =>
        /\ dist.ret = (Ordinal(to) - Ordinal(from)) % 7
        /\ dist.ret \in 0..6
        /\ (dist.ret = 0) <=> (from = to)
        /\ from # to => dist.ret + days_until(to, from) = 7

\* C8 witness: Tuesday.days_until(Monday) = 6
C8_Witness == from = Tuesday /\ to = Monday /\ dist = Returned(6)

\* the weekday of a date
WeekdayOf(d) == from_chrono(chrono_weekday(d))

\* C9: into_naive_date returns today for Today, today + 1 for Tomorrow, and
\* for Weekday(w) the earliest date from today to today + 6 that falls on w,
\* which is today when today falls on w; it panics only when that date is
\* not representable.
C9_Resolve ==
    date # Pending =>
        LET expected ==
                CASE self = Today -> today
                  [] self = Tomorrow -> today + 1
                  [] OTHER ->
                        SetMin({ d \in today..(today + 6) :
                                    WeekdayOf(d) = self.day })
        IN  /\ date = IF expected <= NaiveDateMax
                      THEN Returned(expected) ELSE Panicked
            /\ (self.kind = "Weekday" /\ WeekdayOf(today) = self.day)
                  => date = Returned(today)

\* C9 witness: on a Sunday, Weekday(Sunday) resolves to the same day
C9_Witness ==
    /\ today = DocToday
    /\ self = Weekday(Sunday)
    /\ date = Returned(DocToday)

====
